---- MODULE Spec2Model ----
(***************************************************************************)
(* Model of server/index.js: the in-memory todo store (todos, nextId),     *)
(* the snapshot file (loadData / saveData) and the Express handlers.       *)
(*                                                                         *)
(* A handler that awaits saveData() runs in three steps: its synchronous   *)
(* part (validation, mutation, JSON.stringify of the store), the           *)
(* completion of fs.writeFile, and the continuation that sends the         *)
(* response.  Steps of different requests interleave at the await.         *)
(*                                                                         *)
(* JavaScript values that come from a JSON body are encoded as strings:    *)
(* "undefined" (key absent), "null", "true", "false", and "s:<text>" for   *)
(* the string <text>.  Timestamps are integers (milliseconds); ids and     *)
(* nextId are integers.  Objects live in a heap and the todos array holds  *)
(* references, so that in-place mutation (toggle) and replacement (update) *)
(* are distinguished as in the source.                                     *)
(***************************************************************************)
EXTENDS Integers, Sequences, FiniteSets, TLC

\* ------------------------------------------------------------ bounds
MaxTime == 2
MaxInflight == 2
MaxRequests == 2

\* ------------------------------------------------------------ JS values
Undefined == "undefined"
JsNull == "null"
JsTrue == "true"
JsFalse == "false"
EmptyStr == "s:"

\* ToBoolean of the modelled values (used by !x and x || y)
Truthy(v) == v \notin {Undefined, JsNull, JsFalse, EmptyStr}

\* !v
JsNot(v) == IF Truthy(v) THEN JsFalse ELSE JsTrue

\* a || b
JsOr(a, b) == IF Truthy(a) THEN a ELSE b

\* request bodies: the values a client may send for each key
TitleInputs == {Undefined, EmptyStr, "s:a"}
DescInputs == {Undefined, "s:d"}
CompletedInputs == {Undefined, JsTrue, "s:yes"}

\* ------------------------------------------------------------ parseInt
Digits == <<"0", "1", "2", "3", "4", "5", "6", "7", "8", "9">>

IsDigit(c) == \E i \in 1..10 : Digits[i] = c

DigitVal(c) == (CHOOSE i \in 1..10 : Digits[i] = c) - 1

IsSpace(c) == c = " "

RECURSIVE SkipSpaces(_)
SkipSpaces(s) == IF s # <<>> /\ IsSpace(Head(s)) THEN SkipSpaces(Tail(s)) ELSE s

RECURSIVE DigitPrefix(_, _)
\* value of the longest prefix of decimal digits of s, continuing from acc
DigitPrefix(s, acc) ==
  IF s # <<>> /\ IsDigit(Head(s))
  THEN DigitPrefix(Tail(s), acc * 10 + DigitVal(Head(s)))
  ELSE acc

NaN == [nan |-> TRUE, n |-> 0]

\* parseInt(text): leading white space is skipped, then an optional sign,
\* then the longest run of decimal digits; NaN when there is no digit.
\* (The path values used here have no "0x" prefix.)
ParseInt(text) ==
  LET s == SkipSpaces(text)
      neg == s # <<>> /\ Head(s) = "-"
      body == IF s # <<>> /\ Head(s) \in {"-", "+"} THEN Tail(s) ELSE s
  IN IF body = <<>> \/ ~IsDigit(Head(body))
     THEN NaN
     ELSE [nan |-> FALSE,
           n |-> IF neg THEN 0 - DigitPrefix(body, 0) ELSE DigitPrefix(body, 0)]

\* t.id === id, where id is the result of parseInt (NaN equals nothing)
StrictEq(tid, p) == ~p.nan /\ p.n = tid

\* the :id path values requests are made with
PathIds ==
  { <<"1">>, <<"2">>, <<"3">>, <<"4">>,
    <<"a", "b", "c">>, <<"1", "a", "b", "c">>, <<"2", ".", "5">> }

NoPath == <<>>

\* ------------------------------------------------------------ state
VARIABLES
  todos,        \* let todos: the array, as a sequence of object references
  heap,         \* the todo objects, by reference
  nextId,       \* let nextId
  now,          \* the wall clock read by new Date(), in milliseconds; the
                \* process starts at 1, after the snapshot's timestamps
  file,         \* the content of DATA_FILE
  boot,         \* position of startServer / loadData, and the text loadData saves
  slots,        \* the handlers suspended at "await saveData()"
  ev,           \* the last step taken: the request served and the response sent
  issued,       \* history: ids assigned by create since the process started
  removed,      \* history: ids removed by delete or deleteCompleted
  lastCreated,  \* history: id given to the latest successful create, 0 if none
  accepted,     \* history: number of requests that reached their await
  toggled,      \* history: the latest toggle, until its todo is otherwise mutated
  failed        \* history: some fs.writeFile has failed (and was logged)

vars ==
  <<todos, heap, nextId, now, file, boot, slots, ev, issued, removed, lastCreated,
    accepted, toggled, failed>>

Slots == 1..MaxInflight

Range(f) == {f[i] : i \in DOMAIN f}

Min(a, b) == IF a < b THEN a ELSE b

\* a heap cell that holds no object
NoObj ==
  [id |-> 0, title |-> Undefined, description |-> Undefined,
   completed |-> Undefined, createdAt |-> 0, updatedAt |-> 0]

\* the todos array by value
Store == [i \in 1..Len(todos) |-> heap[todos[i]]]

\* the same, of given array and heap
Deref(ts, h) == [i \in 1..Len(ts) |-> h[ts[i]]]

IdsOf(st) == {st[i].id : i \in 1..Len(st)}

\* ------------------------------------------------------------ snapshot file
NoData == [kind |-> "none", todos |-> <<>>, nextId |-> 0]
FileAbsent == [kind |-> "absent", todos |-> <<>>, nextId |-> 0]
FileCorrupt == [kind |-> "corrupt", todos |-> <<>>, nextId |-> 0]

\* the keys of a todo whose values come from a request body
BodyKeys == {"title", "description", "completed"}

\* the keys of a todo that hold numbers and timestamps
FixedKeys == {"id", "createdAt", "updatedAt"}

\* mutant: a serializer that leaves out every falsy value
JsonOfTodoTruthy(o) ==
  [k \in FixedKeys \cup {k \in BodyKeys : Truthy(o[k])} |-> o[k]]

\* JSON.stringify of one todo: a key whose value is undefined is left out
JsonOfTodo(o) ==
  [k \in FixedKeys \cup {k \in BodyKeys : o[k] # Undefined} |-> o[k]]

\* a property of a parsed object; a missing one reads as undefined
Prop(j, k) == IF k \in DOMAIN j THEN j[k] ELSE Undefined

\* JSON.parse of one todo, read field by field
TodoOfJson(j) ==
  [id |-> j["id"], title |-> Prop(j, "title"), description |-> Prop(j, "description"),
   completed |-> Prop(j, "completed"), createdAt |-> j["createdAt"],
   updatedAt |-> j["updatedAt"]]

\* JSON.stringify({ todos, nextId }, null, 2)
Stringify(st, nid) ==
  [kind |-> "json", todos |-> [i \in 1..Len(st) |-> JsonOfTodo(st[i])], nextId |-> nid]

\* parsed.todos || []
ParsedTodos(text) == [i \in 1..Len(text.todos) |-> TodoOfJson(text.todos[i])]

\* mutant: the counter is not restored from the snapshot
ParsedNextIdOne(text) == 1

\* parsed.nextId || 1
ParsedNextId(text) == IF text.nextId = 0 THEN 1 ELSE text.nextId

\* the store loadData builds from the text of a snapshot
Loaded(text) == [todos |-> ParsedTodos(text), nextId |-> ParsedNextId(text)]

\* a snapshot left by an earlier run: ids 1 and 2 are stored, id 3 was deleted
OldSnapshot ==
  Stringify(<<[id |-> 1, title |-> "s:a", description |-> EmptyStr,
               completed |-> JsTrue, createdAt |-> 0, updatedAt |-> 0],
              [id |-> 2, title |-> "s:a", description |-> "s:d",
               completed |-> JsFalse, createdAt |-> 0, updatedAt |-> 0]>>, 4)

\* references: the array never holds more than the snapshot's todos and one per
\* accepted request, and each suspended handler holds at most one more
Refs == 1..(Len(OldSnapshot.todos) + MaxRequests + MaxInflight)

InitFiles == {FileAbsent, FileCorrupt, OldSnapshot}

\* ------------------------------------------------------------ handlers at await
IdleSlot ==
  [pc |-> "idle", op |-> "none", idx |-> 0, ref |-> 0, count |-> 0, data |-> NoData]

FreeSlots == {i \in Slots : slots[i].pc = "idle"}

\* a further handler may reach its await (the bound on requests per run)
CanSuspend == FreeSlots # {} /\ accepted < MaxRequests

\* the slot a newly suspended handler takes
NewSlot == CHOOSE i \in FreeSlots : \A j \in FreeSlots : i <= j

\* references held by the array or by a suspended handler
Live(ts, sl) == (Range(ts) \cup {sl[i].ref : i \in Slots}) \ {0}

\* the reference of a newly created object
NewRef == CHOOSE r \in Refs : r \notin Live(todos, slots) /\ \A q \in Refs : q \notin Live(todos, slots) => r <= q

\* objects no longer referenced are collected
Gc(h, ts, sl) == [r \in Refs |-> IF r \in Live(ts, sl) THEN h[r] ELSE NoObj]

\* ------------------------------------------------------------ the last step
NoBody == [title |-> Undefined, description |-> Undefined, completed |-> Undefined]

Ev0 ==
  [op |-> "none", step |-> "none", status |-> 0, message |-> "", param |-> NoPath,
   body |-> NoBody, data |-> NoObj, list |-> <<>>, count |-> 0, slot |-> 0]

Step(op, step) == [Ev0 EXCEPT !.op = op, !.step = step]

NotFound(op, p) ==
  [Ev0 EXCEPT !.op = op, !.step = "reply", !.status = 404,
              !.message = "Todo not found", !.param = p]

\* the last step has been observed; a step is taken only then
Quiet == ev = Ev0

\* no toggle on record
NoToggle == [id |-> 0, before |-> NoObj, after |-> NoObj]

\* the record of the latest toggle once the todos with the ids in gone are mutated
Forget(gone) == IF toggled.id \in gone THEN NoToggle ELSE toggled

Listening == Quiet /\ boot.pc = "listening"

Init ==
  /\ todos = <<>>
  /\ heap = [r \in Refs |-> NoObj]
  /\ nextId = 1
  /\ now = 1
  /\ file \in InitFiles
  /\ boot = [pc |-> "start", data |-> NoData]
  /\ slots = [i \in Slots |-> IdleSlot]
  /\ ev = Ev0
  /\ issued = {}
  /\ removed = {}
  /\ lastCreated = 0
  /\ accepted = 0
  /\ toggled = NoToggle
  /\ failed = FALSE

\* ------------------------------------------------------------ startup
\* loadData: readFile and JSON.parse succeed
LoadOk ==
  /\ Quiet
  /\ boot.pc = "start"
  /\ file.kind = "json"
  /\ LET ts == ParsedTodos(file)
     IN /\ todos' = [i \in 1..Len(ts) |-> i]
        /\ heap' = [r \in Refs |-> IF r <= Len(ts) THEN ts[r] ELSE NoObj]
  /\ nextId' = ParsedNextId(file)
  /\ boot' = [boot EXCEPT !.pc = "loaded"]
  /\ ev' = Step("loadData", "loaded")
  /\ UNCHANGED <<now, file, failed, slots, issued, removed, lastCreated, accepted, toggled>>

\* loadData: readFile fails with ENOENT; saveData() is started
LoadAbsent ==
  /\ Quiet
  /\ boot.pc = "start"
  /\ file.kind = "absent"
  /\ boot' = [pc |-> "saving", data |-> Stringify(Store, nextId)]
  /\ ev' = Step("loadData", "enoent")
  /\ UNCHANGED <<todos, heap, nextId, now, file, failed, slots, issued, removed, lastCreated, accepted, toggled>>

\* mutant: every failure of the read starts a save, as ENOENT does
LoadFailSaves ==
  /\ Quiet
  /\ boot.pc = "start"
  /\ file.kind \in {"corrupt", "json"}
  /\ boot' = [pc |-> "saving", data |-> Stringify(Store, nextId)]
  /\ ev' = Step("loadData", "error")
  /\ UNCHANGED <<todos, heap, nextId, now, file, failed, slots, issued, removed, lastCreated, accepted, toggled>>

\* loadData: readFile fails otherwise (any existing file), or JSON.parse throws
LoadFail ==
  /\ Quiet
  /\ boot.pc = "start"
  /\ file.kind \in {"corrupt", "json"}
  /\ boot' = [boot EXCEPT !.pc = "loaded"]
  /\ ev' = Step("loadData", "error")
  /\ UNCHANGED <<todos, heap, nextId, now, file, failed, slots, issued, removed, lastCreated, accepted, toggled>>

\* the writeFile of loadData's saveData() finishes, written or failed
BootWrite(ok) ==
  /\ Quiet
  /\ boot.pc = "saving"
  /\ file' = IF ok THEN boot.data ELSE file
  /\ failed' = (failed \/ ~ok)
  /\ boot' = [pc |-> "loaded", data |-> NoData]
  /\ ev' = Step("saveData", IF ok THEN "written" ELSE "failed")
  /\ UNCHANGED <<todos, heap, nextId, now, slots, issued, removed, lastCreated, accepted, toggled>>

\* mutant: loadData() is not awaited before app.listen
ListenEarly ==
  /\ Quiet
  /\ boot.pc \in {"start", "loaded"}
  /\ boot' = [boot EXCEPT !.pc = "listening"]
  /\ ev' = Step("listen", "listening")
  /\ UNCHANGED <<todos, heap, nextId, now, file, failed, slots, issued, removed, lastCreated, accepted, toggled>>

\* startServer: app.listen after loadData has returned
Listen ==
  /\ Quiet
  /\ boot.pc = "loaded"
  /\ boot' = [boot EXCEPT !.pc = "listening"]
  /\ ev' = Step("listen", "listening")
  /\ UNCHANGED <<todos, heap, nextId, now, file, failed, slots, issued, removed, lastCreated, accepted, toggled>>

\* the clock advances
Tick ==
  /\ Quiet
  /\ now < MaxTime
  /\ now' = now + 1
  /\ ev' = Step("tick", "tick")
  /\ UNCHANGED <<todos, heap, nextId, file, failed, boot, slots, issued, removed, lastCreated, accepted, toggled>>

\* ------------------------------------------------------------ handler code
\* mutant: only an absent title is rejected (title === undefined)
TitleMissingUndef(title) == title = Undefined

\* if (!title)
TitleMissing(title) == ~Truthy(title)

\* mutant: the counter is read but not advanced (id: nextId)
PostIncrementStuck(n) == n

\* mutant: the counter advances by two
PostIncrementSkip(n) == n + 2

\* nextId++ : the value of nextId afterwards
PostIncrement(n) == n + 1

\* const newTodo = { id: nextId++, title, description: description || '', ... }
NewTodo(id, title, description, t1, t2) ==
  [id |-> id, title |-> title, description |-> JsOr(description, EmptyStr),
   completed |-> JsFalse, createdAt |-> t1, updatedAt |-> t2]

\* mutant: a miss yields the last index instead of -1
FindIndexClamp(st, pid) ==
  IF \E i \in 1..Len(st) : StrictEq(st[i].id, pid)
  THEN CHOOSE i \in 1..Len(st) :
         /\ StrictEq(st[i].id, pid)
         /\ \A j \in 1..(i - 1) : ~StrictEq(st[j].id, pid)
  ELSE Len(st)

\* todos.findIndex(t => t.id === id), counted from 1; 0 stands for -1
FindIndex(st, pid) ==
  IF \E i \in 1..Len(st) : StrictEq(st[i].id, pid)
  THEN CHOOSE i \in 1..Len(st) :
         /\ StrictEq(st[i].id, pid)
         /\ \A j \in 1..(i - 1) : ~StrictEq(st[j].id, pid)
  ELSE 0

\* mutant: an omitted description is reset as in create (description || '')
ApplyPatchReset(old, title, description, completed, t) ==
  [id |-> old.id,
   title |-> IF title # Undefined THEN title ELSE old.title,
   description |-> JsOr(description, EmptyStr),
   completed |-> IF completed # Undefined THEN completed ELSE old.completed,
   createdAt |-> old.createdAt,
   updatedAt |-> t]

\* { ...todos[todoIndex], ...(title !== undefined && { title }), ..., updatedAt }
ApplyPatch(old, title, description, completed, t) ==
  [id |-> old.id,
   title |-> IF title # Undefined THEN title ELSE old.title,
   description |-> IF description # Undefined THEN description ELSE old.description,
   completed |-> IF completed # Undefined THEN completed ELSE old.completed,
   createdAt |-> old.createdAt,
   updatedAt |-> t]

\* todos[todoIndex].completed = !todos[todoIndex].completed; .updatedAt = now
ToggleObj(o, t) == [o EXCEPT !.completed = JsNot(o.completed), !.updatedAt = t]

\* mutant: splice(todoIndex) without a count removes the rest of the array
SpliceTail(ts, idx) == SubSeq(ts, 1, idx - 1)

\* todos.splice(todoIndex, 1): the array afterwards
Splice(ts, idx) == [i \in 1..(Len(ts) - 1) |-> IF i < idx THEN ts[i] ELSE ts[i + 1]]

\* todos.filter(t => !t.completed)
FilterNotCompleted(ts, h) == SelectSeq(ts, LAMBDA r : JsNot(h[r].completed) = JsTrue)

Suspended(op, idx, ref, count, ts, h, nid) ==
  [pc |-> "saving", op |-> op, idx |-> idx, ref |-> ref, count |-> count,
   data |-> Stringify(Deref(ts, h), nid)]

\* ------------------------------------------------------------ requests
\* GET /api/todos
GetAll ==
  /\ Listening
  /\ ev' = [Ev0 EXCEPT !.op = "list", !.step = "reply", !.status = 200, !.list = Store]
  /\ UNCHANGED <<todos, heap, nextId, now, file, failed, boot, slots, issued, removed, lastCreated, accepted, toggled>>

\* GET /api/todos/:id
GetOne(p) ==
  /\ Listening
  /\ LET idx == FindIndex(Store, ParseInt(p))
     IN ev' = IF idx = 0
              THEN NotFound("get", p)
              ELSE [Ev0 EXCEPT !.op = "get", !.step = "reply", !.status = 200,
                               !.param = p, !.data = Store[idx]]
  /\ UNCHANGED <<todos, heap, nextId, now, file, failed, boot, slots, issued, removed, lastCreated, accepted, toggled>>

\* GET /health
Health ==
  /\ Listening
  /\ ev' = [Ev0 EXCEPT !.op = "health", !.step = "reply", !.status = 200,
                       !.message = "ok", !.count = Len(todos)]
  /\ UNCHANGED <<todos, heap, nextId, now, file, failed, boot, slots, issued, removed, lastCreated, accepted, toggled>>

\* POST /api/todos, up to "await saveData()"
Create(title, description) ==
  /\ Listening
  /\ LET b == [NoBody EXCEPT !.title = title, !.description = description]
     IN IF TitleMissing(title)
        THEN /\ ev' = [Ev0 EXCEPT !.op = "create", !.step = "reply", !.status = 400,
                                  !.message = "Title is required", !.body = b]
             /\ UNCHANGED <<todos, heap, nextId, now, file, failed, boot, slots, issued,
                            removed, lastCreated, accepted, toggled>>
        ELSE /\ CanSuspend
             /\ \E t2 \in now..Min(now + 1, MaxTime) :
                  LET r == NewRef
                      s == NewSlot
                      obj == NewTodo(nextId, title, description, now, t2)
                      nid == PostIncrement(nextId)
                      ts2 == Append(todos, r)
                      h2 == [heap EXCEPT ![r] = obj]
                  IN /\ todos' = ts2
                     /\ heap' = h2
                     /\ nextId' = nid
                     /\ now' = t2
                     /\ slots' = [slots EXCEPT ![s] = Suspended("create", 0, r, 0, ts2, h2, nid)]
                     /\ ev' = [Ev0 EXCEPT !.op = "create", !.step = "await", !.body = b,
                                          !.slot = s]
                     /\ issued' = issued \cup {obj.id}
                     /\ lastCreated' = obj.id
             /\ accepted' = accepted + 1
             /\ UNCHANGED <<file, failed, boot, removed, toggled>>

\* PUT /api/todos/:id, up to "await saveData()"
Update(p, title, description, completed) ==
  /\ Listening
  /\ LET idx == FindIndex(Store, ParseInt(p))
         b == [title |-> title, description |-> description, completed |-> completed]
     IN IF idx = 0
        THEN /\ ev' = NotFound("update", p)
             /\ UNCHANGED <<todos, heap, slots, accepted, toggled>>
        ELSE /\ CanSuspend
             /\ accepted' = accepted + 1
             /\ toggled' = Forget({Store[idx].id})
             /\ LET r == NewRef
                    s == NewSlot
                    obj == ApplyPatch(heap[todos[idx]], title, description, completed, now)
                    ts2 == [todos EXCEPT ![idx] = r]
                    h1 == [heap EXCEPT ![r] = obj]
                    sl1 == [slots EXCEPT ![s] = Suspended("update", 0, r, 0, ts2, h1, nextId)]
                IN /\ todos' = ts2
                   /\ slots' = sl1
                   /\ heap' = Gc(h1, ts2, sl1)
                   /\ ev' = [Ev0 EXCEPT !.op = "update", !.step = "await", !.param = p,
                                        !.body = b, !.slot = s]
  /\ UNCHANGED <<nextId, now, file, failed, boot, issued, removed, lastCreated>>

\* PATCH /api/todos/:id/toggle, up to "await saveData()"
Toggle(p) ==
  /\ Listening
  /\ LET idx == FindIndex(Store, ParseInt(p))
     IN IF idx = 0
        THEN /\ ev' = NotFound("toggle", p)
             /\ UNCHANGED <<heap, slots, accepted, toggled>>
        ELSE /\ CanSuspend
             /\ accepted' = accepted + 1
             /\ LET s == NewSlot
                    h2 == [heap EXCEPT ![todos[idx]] = ToggleObj(@, now)]
                IN /\ heap' = h2
                   /\ toggled' = [id |-> Store[idx].id, before |-> Store[idx],
                                  after |-> h2[todos[idx]]]
                   /\ slots' = [slots EXCEPT ![s] = Suspended("toggle", idx, 0, 0, todos, h2, nextId)]
                   /\ ev' = [Ev0 EXCEPT !.op = "toggle", !.step = "await", !.param = p,
                                        !.slot = s]
  /\ UNCHANGED <<todos, nextId, now, file, failed, boot, issued, removed, lastCreated>>

\* DELETE /api/todos/:id, up to "await saveData()"
Delete(p) ==
  /\ Listening
  /\ LET idx == FindIndex(Store, ParseInt(p))
     IN IF idx = 0
        THEN /\ ev' = NotFound("delete", p)
             /\ UNCHANGED <<todos, heap, slots, removed, accepted, toggled>>
        ELSE /\ CanSuspend
             /\ accepted' = accepted + 1
             /\ toggled' = Forget({Store[idx].id})
             /\ LET s == NewSlot
                    r == todos[idx]
                    ts2 == Splice(todos, idx)
                    sl1 == [slots EXCEPT ![s] = Suspended("delete", 0, r, 0, ts2, heap, nextId)]
                IN /\ todos' = ts2
                   /\ slots' = sl1
                   /\ heap' = Gc(heap, ts2, sl1)
                   /\ removed' = removed \cup {heap[r].id}
                   /\ ev' = [Ev0 EXCEPT !.op = "delete", !.step = "await", !.param = p,
                                        !.slot = s]
  /\ UNCHANGED <<nextId, now, file, failed, boot, issued, lastCreated>>

\* DELETE /api/todos/completed/all, up to "await saveData()"
DeleteCompleted ==
  /\ Listening
  /\ CanSuspend
  /\ accepted' = accepted + 1
  /\ LET s == NewSlot
         ts2 == FilterNotCompleted(todos, heap)
         deletedCount == Len(todos) - Len(ts2)
         sl1 == [slots EXCEPT ![s] =
                   Suspended("deleteCompleted", 0, 0, deletedCount, ts2, heap, nextId)]
     IN /\ todos' = ts2
        /\ slots' = sl1
        /\ heap' = Gc(heap, ts2, sl1)
        /\ removed' = removed \cup (IdsOf(Store) \ IdsOf(Deref(ts2, heap)))
        /\ toggled' = Forget(IdsOf(Store) \ IdsOf(Deref(ts2, heap)))
        /\ ev' = [Ev0 EXCEPT !.op = "deleteCompleted", !.step = "await", !.slot = s]
  /\ UNCHANGED <<nextId, now, file, failed, boot, issued, lastCreated>>

\* ------------------------------------------------------------ after the await
\* mutant: a failed write is started again instead of being logged
WriteDoneRetry(s, ok) ==
  /\ Quiet
  /\ slots[s].pc = "saving"
  /\ file' = IF ok THEN slots[s].data ELSE file
  /\ failed' = (failed \/ ~ok)
  /\ slots' = [slots EXCEPT ![s].pc = IF ok THEN "saved" ELSE "saving"]
  /\ ev' = [Step("saveData", IF ok THEN "written" ELSE "failed") EXCEPT !.slot = s]
  /\ UNCHANGED <<todos, heap, nextId, now, boot, issued, removed, lastCreated, accepted, toggled>>

\* fs.writeFile of a handler's saveData() finishes: written, or failed (and logged)
WriteDone(s, ok) ==
  /\ Quiet
  /\ slots[s].pc = "saving"
  /\ file' = IF ok THEN slots[s].data ELSE file
  /\ failed' = (failed \/ ~ok)
  /\ slots' = [slots EXCEPT ![s].pc = "saved"]
  /\ ev' = [Step("saveData", IF ok THEN "written" ELSE "failed") EXCEPT !.slot = s]
  /\ UNCHANGED <<todos, heap, nextId, now, boot, issued, removed, lastCreated, accepted, toggled>>

\* the response a handler sends after its await
Response(sl) ==
  LET base == [Ev0 EXCEPT !.op = sl.op, !.step = "respond", !.status = 200]
  IN CASE sl.op = "create" -> [base EXCEPT !.status = 201, !.data = heap[sl.ref]]
       [] sl.op = "update" -> [base EXCEPT !.data = heap[sl.ref]]
       [] sl.op = "delete" -> [base EXCEPT !.data = heap[sl.ref]]
       [] sl.op = "deleteCompleted" ->
            [base EXCEPT !.message = "Deleted completed todos", !.count = sl.count]
       [] sl.op = "toggle" ->
            IF sl.idx <= Len(todos)
            THEN [base EXCEPT !.data = Store[sl.idx]]
            ELSE [Ev0 EXCEPT !.op = "toggle", !.step = "uncaught"]

\* mutant: saveData() is not awaited, the response goes out while the write runs
RespondEarly(s) ==
  /\ Quiet
  /\ slots[s].pc \in {"saving", "saved"}
  /\ ev' = [Response(slots[s]) EXCEPT !.slot = s]
  /\ slots' = [slots EXCEPT ![s] = IdleSlot]
  /\ heap' = Gc(heap, todos, slots')
  /\ UNCHANGED <<todos, nextId, now, file, failed, boot, issued, removed, lastCreated, accepted, toggled>>

\* the continuation of a handler after "await saveData()"
Respond(s) ==
  /\ Quiet
  /\ slots[s].pc = "saved"
  /\ ev' = [Response(slots[s]) EXCEPT !.slot = s]
  /\ slots' = [slots EXCEPT ![s] = IdleSlot]
  /\ heap' = Gc(heap, todos, slots')
  /\ UNCHANGED <<todos, nextId, now, file, failed, boot, issued, removed, lastCreated, accepted, toggled>>

\* the step recorded in ev has been observed
Observe ==
  /\ ev # Ev0
  /\ ev' = Ev0
  /\ UNCHANGED <<todos, heap, nextId, now, file, failed, boot, slots, issued, removed,
                 lastCreated, accepted, toggled>>

Next ==
  \/ LoadOk
  \/ LoadAbsent
  \/ LoadFail
  \/ \E ok \in BOOLEAN : BootWrite(ok)
  \/ Listen
  \/ Tick
  \/ GetAll
  \/ \E p \in PathIds : GetOne(p)
  \/ Health
  \/ \E title \in TitleInputs, description \in DescInputs : Create(title, description)
  \/ \E p \in PathIds, title \in TitleInputs, description \in DescInputs,
        completed \in CompletedInputs : Update(p, title, description, completed)
  \/ \E p \in PathIds : Toggle(p)
  \/ \E p \in PathIds : Delete(p)
  \/ DeleteCompleted
  \/ \E s \in Slots, ok \in BOOLEAN : WriteDone(s, ok)
  \/ \E s \in Slots : Respond(s)
  \/ Observe

Spec == Init /\ [][Next]_vars

\* ------------------------------------------------------------ claims
\* the step just taken is the synchronous part of a request of kind op
Served(e, op) == e.op = op /\ e.step \in {"reply", "await"}

\* the todo at position i is the one the path value p addresses
Matches(st, p) == {i \in 1..Len(st) : StrictEq(st[i].id, ParseInt(p))}

\* the store, the counter, the suspended handlers and the file are as before
NothingChanged == UNCHANGED <<todos, heap, nextId, slots, file>>

\* the sequence st without its element at position k
Without(st, k) == [i \in 1..(Len(st) - 1) |-> IF i < k THEN st[i] ELSE st[i + 1]]

\* C1: the ids of the todos in the store are pairwise distinct
C1_IdsDistinct ==
  \A i, j \in 1..Len(todos) : i # j => Store[i].id # Store[j].id

\* C1 witness: a create and a delete have acted and two todos are stored
C1_Witness ==
  /\ Len(todos) >= 2
  /\ issued \cap IdsOf(Store) # {}
  /\ removed # {}

\* C2: nextId is above every stored id, every id issued and every id freed
C2_NextIdAbove ==
  \A i \in IdsOf(Store) \cup issued \cup removed : i < nextId

\* C2 witness: a create has just run after an id was freed by a delete
C2_Witness ==
  /\ Served(ev, "create") /\ ev.step = "await"
  /\ removed # {}
  /\ lastCreated \in IdsOf(Store)

\* C3: each successful create gets the id of the previous successful create
\* plus one, and appends exactly that todo
C3_CreateIdsNoGap ==
  [][(Served(ev', "create") /\ ev'.step = "await") =>
       /\ Len(todos') = Len(todos) + 1
       /\ lastCreated # 0 => Store'[Len(todos')].id = lastCreated + 1
       /\ \A i \in IdsOf(Store) \cup issued : i < Store'[Len(todos')].id]_vars

\* C3 witness: a second create has run while the first still awaits its save
C3_Witness ==
  /\ Served(ev, "create") /\ ev.step = "await"
  /\ Cardinality(issued) = 2
  /\ \A s \in Slots : slots[s].op = "create" /\ slots[s].pc = "saving"

\* C4: every todo in the store has a non-empty title
C4_TitlesNonEmpty ==
  \A i \in 1..Len(todos) : Store[i].title # EmptyStr

\* C5: a create with an empty or absent title answers 400 'Title is required'
\* and changes nothing
C5_CreateRejected ==
  [][(Served(ev', "create") /\ ev'.body.title \in {EmptyStr, Undefined}) =>
       /\ ev'.step = "reply"
       /\ ev'.status = 400
       /\ ev'.message = "Title is required"
       /\ NothingChanged]_vars

\* C5 witness: a create with an empty title was rejected on a non-empty store
C5_Witness ==
  /\ Served(ev, "create") /\ ev.status = 400
  /\ ev.body.title = EmptyStr
  /\ Len(todos) > 0

\* C6: get, update, toggle and delete of an id that matches no todo answer
\* 404 'Todo not found' and change nothing
C6_NotFound ==
  [][((\E op \in {"get", "update", "toggle", "delete"} : Served(ev', op))
        /\ Matches(Store, ev'.param) = {}) =>
       /\ ev'.step = "reply"
       /\ ev'.status = 404
       /\ ev'.message = "Todo not found"
       /\ NothingChanged]_vars

\* C6 witness: an update of an unknown id was answered 404 while todos are
\* stored and another handler awaits its save
C6_Witness ==
  /\ Served(ev, "update") /\ ev.status = 404
  /\ Len(todos) > 0
  /\ \E s \in Slots : slots[s].pc = "saving"

\* C7: a successful update overwrites exactly the fields present in the body
\* and updatedAt, and leaves the rest of the todo, its position, the other todos
\* and nextId unchanged
C7_UpdateFrame ==
  [][(Served(ev', "update") /\ ev'.step = "await") =>
       \E k \in Matches(Store, ev'.param) :
         LET old == Store[k]
             new == Store'[k]
             b == ev'.body
         IN /\ Len(todos') = Len(todos)
            /\ new.title = (IF b.title = Undefined THEN old.title ELSE b.title)
            /\ new.description =
                 (IF b.description = Undefined THEN old.description ELSE b.description)
            /\ new.completed =
                 (IF b.completed = Undefined THEN old.completed ELSE b.completed)
            /\ new.updatedAt = now
            /\ new.id = old.id
            /\ new.createdAt = old.createdAt
            /\ \A j \in 1..Len(todos) : j # k => Store'[j] = Store[j]
            /\ nextId' = nextId]_vars

\* C7 witness: an update whose body has completed only has run on a store of
\* two todos
C7_Witness ==
  /\ Served(ev, "update") /\ ev.step = "await"
  /\ ev.body.title = Undefined /\ ev.body.description = Undefined
  /\ ev.body.completed # Undefined
  /\ Len(todos) = 2

\* C8: the second of two successive toggles of a todo returns completed to its
\* original value, updatedAt has advanced on both toggles, and title,
\* description, id and createdAt are as they were
C8_ToggleTwice ==
  [][(Served(ev', "toggle") /\ ev'.step = "await") =>
       \A k \in Matches(Store, ev'.param) :
         toggled.id = Store[k].id =>
           LET orig == toggled.before
               mid == toggled.after
               new == Store'[k]
           IN /\ new.completed = orig.completed
              /\ mid.updatedAt > orig.updatedAt
              /\ new.updatedAt > mid.updatedAt
              /\ new.title = orig.title
              /\ new.description = orig.description
              /\ new.id = orig.id
              /\ new.createdAt = orig.createdAt]_vars

\* C9: a successful delete removes exactly the todo with the id and keeps it,
\* unchanged, for the response; the other todos, their order and nextId stay;
\* a later delete of an id removed before answers 404 and changes nothing
C9_DeleteOnce ==
  [][/\ (Served(ev', "delete") /\ ev'.step = "await") =>
          \E k \in Matches(Store, ev'.param) :
            /\ Store' = Without(Store, k)
            /\ heap'[slots'[ev'.slot].ref] = Store[k]
            /\ nextId' = nextId
     /\ \A s \in Slots :
          (slots[s].op = "delete" /\ slots'[s].op = "delete") =>
            heap'[slots'[s].ref] = heap[slots[s].ref]
     /\ (ev'.op = "delete" /\ ev'.step = "respond") =>
          /\ ev'.status = 200
          /\ ev'.data = heap[slots[ev'.slot].ref]
          /\ ev'.data.id \in removed
     /\ (Served(ev', "delete") /\ ~ParseInt(ev'.param).nan
           /\ ParseInt(ev'.param).n \in removed) =>
          /\ ev'.status = 404
          /\ NothingChanged]_vars

\* C9 witness: a delete of an id removed earlier was answered 404 after another
\* request had been accepted in between
C9_Witness ==
  /\ Served(ev, "delete") /\ ev.status = 404
  /\ ~ParseInt(ev.param).nan /\ ParseInt(ev.param).n \in removed
  /\ accepted = 2
  /\ Len(todos) > 0

\* C10: deleteCompleted removes the todos whose completed is true and no other,
\* keeps the order of the rest and nextId, and counts the todos removed
C10_DeleteCompleted ==
  [][/\ (Served(ev', "deleteCompleted") /\ ev'.step = "await") =>
          /\ Store' = SelectSeq(Store, LAMBDA t : t.completed # JsTrue)
          /\ nextId' = nextId
          /\ slots'[ev'.slot].count = Len(Store) - Len(Store')
     /\ (ev'.op = "deleteCompleted" /\ ev'.step = "respond") =>
          ev'.count = slots[ev'.slot].count]_vars

C12_SaveFailureHidden ==
  [][/\ (ev'.op = "saveData" /\ ev'.slot # 0) =>
          /\ slots' = [slots EXCEPT ![ev'.slot].pc = "saved"]
          /\ UNCHANGED <<todos, heap, nextId>>
          /\ ev'.step = "failed" => file' = file
     /\ ev'.step = "respond" =>
          LET sl == slots[ev'.slot]
          IN /\ ev'.status = (IF sl.op = "create" THEN 201 ELSE 200)
             /\ sl.op \in {"create", "update", "delete"} => ev'.data = heap[sl.ref]
             /\ sl.op = "deleteCompleted" => ev'.count = sl.count
             /\ UNCHANGED <<todos, nextId, file>>]_vars

\* C12 witness: the only save of the run, a create's, has failed and the create
\* was answered 201 with its todo
C12_Witness ==
  /\ failed
  /\ file.kind = "corrupt"
  /\ accepted = 1
  /\ ev.op = "create" /\ ev.step = "respond" /\ ev.status = 201
  /\ Len(todos) = 1 /\ ev.data = Store[1]

\* C13: a handler starts its save after its mutation (the text saved is the
\* store after the mutation) and ends only after that write has finished
C13_SaveBeforeResponse ==
  [][/\ ev'.step = "await" =>
          /\ slots[ev'.slot].pc = "idle"
          /\ slots'[ev'.slot].pc = "saving"
          /\ slots'[ev'.slot].data = Stringify(Store', nextId')
     /\ ev'.step \in {"respond", "uncaught"} =>
          /\ slots[ev'.slot].pc = "saved"
          /\ slots'[ev'.slot].pc = "idle"
     /\ \A s \in Slots :
          slots[s].pc = "saving" => slots'[s].pc \in {"saving", "saved"}]_vars

\* C13 witness: an update was answered after its write, while another handler's
\* write is still in progress
C13_Witness ==
  /\ ev.op = "update" /\ ev.step = "respond"
  /\ ~failed
  /\ file.kind = "json"
  /\ \E s \in Slots : slots[s].pc = "saving"

\* C14: requests are served only once the listener is bound, the listener is
\* bound only after loadData has returned, and on an absent file loadData saves
\* the empty store (nextId 1) and returns only when that write has finished
C14_LoadBeforeListen ==
  [][/\ ev'.step \in {"reply", "await"} => boot.pc = "listening"
     /\ ev'.op = "listen" => boot.pc = "loaded"
     /\ (boot.pc = "start" /\ file.kind = "absent" /\ boot' # boot) =>
          /\ boot'.pc = "saving"
          /\ boot'.data = Stringify(<<>>, 1)
          /\ Store' = <<>> /\ nextId' = 1
     /\ (boot.pc = "saving" /\ boot' # boot) =>
          /\ ev'.op = "saveData"
          /\ boot'.pc = "loaded"
          /\ file' = boot.data \/ file' = file
          /\ Store' = <<>> /\ nextId' = 1]_vars

\* C14 witness: after a cold start whose save was written, the first request
\* has been accepted
C14_Witness ==
  /\ boot.pc = "listening"
  /\ file = Stringify(<<>>, 1)
  /\ accepted = 1
  /\ ev.step = "await"

\* C15: a load that fails for another reason than an absent file leaves the
\* store empty with nextId 1, starts no save and leaves the file as it is, and
\* the listener is bound next
C15_LoadFailure ==
  [][/\ (ev'.op = "loadData" /\ ev'.step = "error") =>
          /\ Store' = <<>> /\ nextId' = 1
          /\ file' = file
          /\ boot' = [pc |-> "loaded", data |-> NoData]
     /\ (boot.pc = "start" /\ file.kind # "absent") => file' = file
     /\ (boot.pc = "loaded" /\ boot' # boot) =>
          /\ boot'.pc = "listening"
          /\ file' = file
          /\ UNCHANGED <<todos, nextId>>]_vars

\* C15 witness: the file could not be parsed, and the server has answered a
\* list request with its empty store
C15_Witness ==
  /\ file.kind = "corrupt"
  /\ boot.pc = "listening"
  /\ ev.op = "list" /\ ev.status = 200 /\ ev.list = <<>>
  /\ nextId = 1

\* the path value is an integer literal: decimal digits only
IsIntLiteral(p) == p # <<>> /\ \A i \in 1..Len(p) : IsDigit(p[i])

\* C16: get, update, toggle and delete with a path value that is not an integer
\* literal answer 404 and change nothing
C16_NonIntegerId ==
  [][((\E op \in {"get", "update", "toggle", "delete"} : Served(ev', op))
        /\ ~IsIntLiteral(ev'.param)) =>
       /\ ev'.status = 404
       /\ NothingChanged]_vars

\* C17: the response of a toggle carries the todo it toggled, with the completed
\* value this toggle wrote
C17_ToggleResponse ==
  [][(ev'.op = "toggle" /\ ev'.step = "respond") =>
       LET sl == slots[ev'.slot]
           mine == TodoOfJson(sl.data.todos[sl.idx])
       IN /\ ev'.data.id = mine.id
          /\ ev'.data.completed = mine.completed]_vars

\* C18: no handler ends with an uncaught error after its save (every request
\* that reached its await ends by sending its response)
C18_NoUncaught == ev.step # "uncaught"

\* C19: when no handler is suspended, some save has been started and no write
\* has failed, the file holds the current store
C19_FileMatchesStore ==
  (/\ boot.pc = "listening"
   /\ \A s \in Slots : slots[s].pc = "idle"
   /\ accepted > 0
   /\ ~failed) => file = Stringify(Store, nextId)

\* C20: a create is answered 201 with the todo exactly as it was created
C20_CreateResponse ==
  [][(ev'.op = "create" /\ ev'.step = "respond") =>
       LET sl == slots[ev'.slot]
           made == TodoOfJson(sl.data.todos[Len(sl.data.todos)])
       IN /\ ev'.status = 201
          /\ ev'.data = made]_vars
====
